---- MODULE Spec2Model ----
(***************************************************************************)
(* A model of asheetbly (src/asheetbly/sheet.py): the coordinate codec,    *)
(* the Sheet cell storage, the Stack with frames, and the Interpreter's    *)
(* fetch/decode/execute loop with its opcode handlers.                     *)
(*                                                                         *)
(* Texts are sequences of one-character strings, so that upper(), float(), *)
(* str() and the A1 pattern are computed character by character.           *)
(* Python floats are modelled by exact rationals n/d (d > 0, lowest terms) *)
(* with a flag for the negative zero; arithmetic is only taken where the   *)
(* float arithmetic is exact (dyadic operands and results, see Exact).     *)
(***************************************************************************)
EXTENDS Integers, Sequences, FiniteSets, TLC

(***************************************************************************)
(* Bounds of the model.                                                    *)
(***************************************************************************)
\* rows the loader may write into the sheet in one behaviour, per program family
MaxCtlRows == 4
MaxDataRows == 3
MaxMiscRows == 1
\* calls of Interpreter.reset() in one behaviour
MaxResets == 1
\* largest denominator of a float the arithmetic opcodes are followed on
MaxDen == 4
\* largest numerator magnitude the arithmetic opcodes are followed on
MaxNum == 12
\* depth of the operand stack and of the return-address stack the run is followed to
MaxStack == 3
MaxCalls == 3
\* length of a text on the operand stack the run is followed to
MaxText == 9
\* depth of the operand stack in the Stack-API specification
MaxDepth == 3
\* number of frames in the Stack-API specification
MaxFrames == 3
\* largest count handed to popn / peek / push_frame in the Stack-API specification
MaxArg == 3
MaxResetRows == 3
MaxShuffleRows == 4
MaxStraightRows == 3
\* columns, rows and text lengths the coordinate codec is applied to
MaxCol == 704
MaxRow == 10
MaxAddr == 4

(***************************************************************************)
(* Characters, in ASCII order (a subset of ASCII).                         *)
(***************************************************************************)
Ascii ==
  << " ", "-", ".",
     "0", "1", "2", "3", "4", "5", "6", "7", "8", "9",
     "A", "B", "C", "D", "E", "F", "G", "H", "I", "J", "K", "L", "M",
     "N", "O", "P", "Q", "R", "S", "T", "U", "V", "W", "X", "Y", "Z",
     "_",
     "a", "b", "c", "d", "e", "f", "g", "h", "i", "j", "k", "l", "m",
     "n", "o", "p", "q", "r", "s", "t", "u", "v", "w", "x", "y", "z" >>

CharSet == {Ascii[i] : i \in 1..Len(Ascii)}
OrdOf == [c \in CharSet |-> CHOOSE i \in 1..Len(Ascii) : Ascii[i] = c]
Ord(c) == OrdOf[c]

OrdA == Ord("A")
OrdZ == Ord("Z")
OrdLowerA == Ord("a")
OrdLowerZ == Ord("z")
Ord0 == Ord("0")
Ord9 == Ord("9")

IsDigit(c) == Ord(c) >= Ord0 /\ Ord(c) <= Ord9
IsUpper(c) == Ord(c) >= OrdA /\ Ord(c) <= OrdZ
IsLower(c) == Ord(c) >= OrdLowerA /\ Ord(c) <= OrdLowerZ
IsLetter(c) == IsUpper(c) \/ IsLower(c)
DigitVal(c) == Ord(c) - Ord0
DigitChar(k) == Ascii[Ord0 + k]

\* str.upper() / str.lower() of one character, then of a text
UpperChar(c) == IF IsLower(c) THEN Ascii[Ord(c) - OrdLowerA + OrdA] ELSE c
LowerChar(c) == IF IsUpper(c) THEN Ascii[Ord(c) - OrdA + OrdLowerA] ELSE c
Upper(s) == [i \in 1..Len(s) |-> UpperChar(s[i])]
Lower(s) == [i \in 1..Len(s) |-> LowerChar(s[i])]

\* str.rstrip() / str.strip() for the one whitespace character of Ascii
RECURSIVE RStrip(_)
RStrip(s) ==
  IF s # <<>> /\ s[Len(s)] = " " THEN RStrip(SubSeq(s, 1, Len(s) - 1)) ELSE s

RECURSIVE LStrip(_)
LStrip(s) == IF s # <<>> /\ s[1] = " " THEN LStrip(Tail(s)) ELSE s

Strip(s) == LStrip(RStrip(s))

\* Python's < on str: lexicographic by code point
RECURSIVE TextLess(_, _)
TextLess(a, b) ==
  IF b = <<>> THEN FALSE
  ELSE IF a = <<>> THEN TRUE
  ELSE IF a[1] # b[1] THEN Ord(a[1]) < Ord(b[1])
  ELSE TextLess(Tail(a), Tail(b))

(***************************************************************************)
(* Numbers.                                                                *)
(***************************************************************************)
Abs(x) == IF x < 0 THEN -x ELSE x

RECURSIVE GCD(_, _)
GCD(a, b) == IF b = 0 THEN a ELSE GCD(b, a % b)

\* floor division and modulus for any sign of the dividend (divisor > 0)
FloorDiv(a, b) == IF a >= 0 THEN a \div b ELSE -((-a + b - 1) \div b)

RECURSIVE Pow10(_)
Pow10(k) == IF k = 0 THEN 1 ELSE 10 * Pow10(k - 1)

RECURSIVE DigitsToNat(_)
DigitsToNat(s) ==
  IF s = <<>> THEN 0
  ELSE 10 * DigitsToNat(SubSeq(s, 1, Len(s) - 1)) + DigitVal(s[Len(s)])

RECURSIVE NatToDigits(_)
NatToDigits(k) ==
  IF k < 10 THEN << DigitChar(k) >>
  ELSE Append(NatToDigits(k \div 10), DigitChar(k % 10))

(***************************************************************************)
(* Values: Python str, float and int.  One record shape for all of them.   *)
(*   t = "str":   s is the text                                            *)
(*   t = "float": n/d in lowest terms, d > 0; z marks -0.0 (only if n = 0) *)
(*   t = "int":   n                                                        *)
(*   t = "none":  Python's None (a missing dictionary key, a failed parse) *)
(***************************************************************************)
PyStr(s) == [t |-> "str", n |-> 0, d |-> 1, z |-> FALSE, s |-> s]
PyInt(n) == [t |-> "int", n |-> n, d |-> 1, z |-> FALSE, s |-> <<>>]
PyNone == [t |-> "none", n |-> 0, d |-> 1, z |-> FALSE, s |-> <<>>]

PyFloat(n, d) ==
  LET g == GCD(Abs(n), d)
  IN  [t |-> "float", n |-> n \div g, d |-> d \div g, z |-> FALSE, s |-> <<>>]

\* a float zero with the given sign
FltZero(neg) == [t |-> "float", n |-> 0, d |-> 1, z |-> neg, s |-> <<>>]

\* n/d as a float, the zero taking the sign neg
FltSigned(n, d, neg) == IF n = 0 THEN FltZero(neg) ELSE PyFloat(n, d)

IsNum(v) == v.t \in {"float", "int"}
IsNegative(v) == v.n < 0 \/ (v.n = 0 /\ v.z)

(***************************************************************************)
(* float(text) and str(value).                                             *)
(***************************************************************************)
\* float() of an unsigned, stripped text u with its point at position dot
\* (Len(u) + 1 if it has none); neg is whether a "-" preceded it
ParseDecimal(u, dot, neg) ==
  IF /\ \A i \in 1..Len(u) : IsDigit(u[i]) \/ i = dot
     /\ \A i \in 1..Len(u) : u[i] = "." => i = dot
     /\ \E i \in 1..Len(u) : IsDigit(u[i])
  THEN FltSigned((IF neg THEN -1 ELSE 1)
                   * DigitsToNat(SubSeq(u, 1, dot - 1) \o SubSeq(u, dot + 1, Len(u))),
                 Pow10(IF dot > Len(u) THEN 0 ELSE Len(u) - dot),
                 neg)
  ELSE PyNone

\* the position of the first "." of u, or Len(u) + 1
RECURSIVE DotAt(_)
DotAt(u) == IF u = <<>> \/ u[1] = "." THEN 1 ELSE 1 + DotAt(Tail(u))

ParseSigned(b) ==
  IF b # <<>> /\ b[1] = "-"
  THEN ParseDecimal(Tail(b), DotAt(Tail(b)), TRUE)
  ELSE ParseDecimal(b, DotAt(b), FALSE)

\* _safe_float: float(n), or None when float() raises.  The decimal grammar
\* [ws] [-] digits [. digits] [ws]; the texts of this model hold no exponent,
\* underscore, "inf" or "nan".
_safe_float(s) == ParseSigned(Strip(s))

\* the digits after the point of rem/d (0 < rem < d), d a divisor of a power of 10
RECURSIVE FracDigits(_, _)
FracDigits(rem, d) ==
  IF rem = 0 THEN <<>>
  ELSE << DigitChar((rem * 10) \div d) >> \o FracDigits((rem * 10) % d, d)

\* str(x) of a float x: repr without exponent (1e-4 <= |x| < 1e16, or zero)
FormatFloat(v) ==
  LET a == Abs(v.n)
      frac == IF a % v.d = 0 THEN << "0" >> ELSE FracDigits(a % v.d, v.d)
  IN  (IF IsNegative(v) THEN << "-" >> ELSE <<>>)
        \o NatToDigits(a \div v.d) \o << "." >> \o frac

\* str(v)
StrOf(v) ==
  CASE v.t = "str" -> v.s
    [] v.t = "float" -> FormatFloat(v)
    [] v.t = "int" -> (IF v.n < 0 THEN << "-" >> ELSE <<>>) \o NatToDigits(Abs(v.n))
    [] OTHER -> << "N", "o", "n", "e" >>

\* Python truthiness of a value
Truthy(v) ==
  CASE v.t = "str" -> v.s # <<>>
    [] v.t \in {"float", "int"} -> v.n # 0
    [] OTHER -> FALSE

\* Python's == on values: numbers by value, texts by content, never across
PyEq(a, b) ==
  IF IsNum(a) /\ IsNum(b) THEN a.n * b.d = b.n * a.d
  ELSE a.t = b.t /\ a.s = b.s

\* Python's < on values; a number against a text raises TypeError
CanOrder(a, b) == (IsNum(a) /\ IsNum(b)) \/ (a.t = "str" /\ b.t = "str")
PyLess(a, b) ==
  IF IsNum(a) /\ IsNum(b) THEN a.n * b.d < b.n * a.d ELSE TextLess(a.s, b.s)

(***************************************************************************)
(* Coordinate codec.                                                       *)
(***************************************************************************)
RECURSIVE _letters_to_numbers(_)
_letters_to_numbers(letters) ==
  IF letters = <<>> THEN 0
  ELSE _letters_to_numbers(SubSeq(letters, 1, Len(letters) - 1)) * 26
         + (Ord(UpperChar(letters[Len(letters)])) - OrdA + 1)

\* A1_NOTATION: ^([A-Za-z]+)([0-9]+)$ ; the number of leading letters, or 0
\* when the text does not match
A1_NOTATION(s) ==
  LET k == Cardinality({i \in 1..Len(s) : \A j \in 1..i : IsLetter(s[j])})
  IN  IF k >= 1 /\ k < Len(s) /\ \A j \in (k + 1)..Len(s) : IsDigit(s[j])
      THEN k ELSE 0

\* Sheet.a1_to_index(a1): [err, col, row]; re.match raises TypeError on a float
\* the conversion of a text already read
A1Pair(a1) ==
  IF a1.t # "str" THEN [err |-> "TypeError", col |-> 0, row |-> 0]
  ELSE LET k == A1_NOTATION(a1.s)
       IN  IF k = 0 THEN [err |-> "InvalidA1Notation", col |-> 0, row |-> 0]
           ELSE [err |-> "none",
                 col |-> _letters_to_numbers(SubSeq(a1.s, 1, k)),
                 row |-> DigitsToNat(SubSeq(a1.s, k + 1, Len(a1.s)))]

\* Sheet.a1_to_index: its argument is evaluated once, as a call evaluates it
a1_to_index(a1) == CHOOSE pair \in { A1Pair(text) : text \in { a1 } } : TRUE

\* ALPHABET[k - 1], k in 1..26
Letter(k) == Ascii[OrdA + k - 1]

\* a base-26 rendering that lets the remainder 0 stand
RECURSIVE PlainBase26(_)
PlainBase26(numbers) ==
  IF numbers < 26 THEN << Letter((numbers % 26) + 1) >>
  ELSE Append(PlainBase26(numbers \div 26), Letter((numbers % 26) + 1))

\* q,r = divmod(numbers, 26) with "if r==0: q=q-1; r=26" applied
QuotientOf(numbers) ==
  IF numbers % 26 = 0 THEN numbers \div 26 - 1 ELSE numbers \div 26
RemainderOf(numbers) == IF numbers % 26 = 0 THEN 26 ELSE numbers % 26

RECURSIVE LettersOf(_, _)
LettersOf(q, r) ==
  IF q = 0 THEN << Letter(r) >>
  ELSE IF q <= 26 THEN << Letter(q), Letter(r) >>
  ELSE Append(LettersOf(QuotientOf(q), RemainderOf(q)), Letter(r))

_numbers_to_letters(numbers) ==
  LettersOf(QuotientOf(numbers), RemainderOf(numbers))

\* Sheet.index_to_a1(index) for a pair of ints: [err, s]
index_to_a1(index) ==
  IF ~(index[1] > 0 /\ index[2] > 0) THEN [err |-> "AssertionError", s |-> <<>>]
  ELSE [err |-> "none",
        s |-> _numbers_to_letters(index[1]) \o NatToDigits(index[2])]

(***************************************************************************)
(* Sheet: a dictionary from (column, row) to values.                       *)
(***************************************************************************)
EmptySheet == [k \in {} |-> PyNone]

\* n if float(text) is truthy, else text
NumberOrText(n, text) == IF Truthy(n) THEN n ELSE PyStr(text)
InterpretText(text) == NumberOrText(_safe_float(text), text)

\* str(val) is evaluated once
interpret_value(val) ==
  CHOOSE value \in { InterpretText(text) : text \in { StrOf(val) } } : TRUE

read(sh, index, default) ==
  interpret_value(IF index \in DOMAIN sh THEN sh[index] ELSE default)

write(sh, index, value) ==
  [k \in (DOMAIN sh) \cup {index} |->
     IF k = index THEN interpret_value(value) ELSE sh[k]]

(***************************************************************************)
(* Stack: values and frames.  Every operation yields                       *)
(* [err, values, frames, ret]; ret is the sequence of values returned.     *)
(***************************************************************************)
StackResult(e, vs, fs, r) == [err |-> e, values |-> vs, frames |-> fs, ret |-> r]

Last(q) == q[Len(q)]
Front(q) == SubSeq(q, 1, Len(q) - 1)

push(vs, fs, value) == StackResult("none", Append(vs, value), fs, <<>>)

pop(vs, fs) ==
  IF fs # <<>> /\ Len(vs) <= Last(fs) THEN StackResult("IndexError", vs, fs, <<>>)
  ELSE IF vs = <<>> THEN StackResult("IndexError", vs, fs, <<>>)
  ELSE StackResult("none", Front(vs), fs, << Last(vs) >>)

\* values[-n:] for n >= 0: the last n values, and the whole list for n = 0
LastSlice(vs, n) ==
  IF n = 0 \/ n >= Len(vs) THEN vs ELSE SubSeq(vs, Len(vs) - n + 1, Len(vs))

popn(vs, fs, n) ==
  IF fs # <<>> /\ ~(Len(vs) - n + 1 > Last(fs))
  THEN StackResult("AssertionError", vs, fs, <<>>)
  ELSE IF ~(Len(vs) >= n) THEN StackResult("AssertionError", vs, fs, <<>>)
  ELSE StackResult("none",
                   SubSeq(vs, 1, Len(vs) - Len(LastSlice(vs, n))),
                   fs, LastSlice(vs, n))

\* a push_frame without its assertions
PushFrameUnchecked(vs, fs, args) ==
  StackResult("none", vs, Append(fs, Len(vs) - args), <<>>)

push_frame(vs, fs, args) ==
  LET frametop == Len(vs) - args
  IN  IF fs # <<>> /\ ~(frametop >= Last(fs))
      THEN StackResult("AssertionError", vs, fs, <<>>)
      ELSE IF fs = <<>> /\ ~(frametop >= 0)
      THEN StackResult("AssertionError", vs, fs, <<>>)
      ELSE StackResult("none", vs, Append(fs, frametop), <<>>)

\* a pop_frame that forgets the frame
KeepFrame(vs, fs) == StackResult("none", vs, fs, <<>>)

pop_frame(vs, fs) ==
  StackResult("none", vs, IF fs # <<>> THEN Front(fs) ELSE fs, <<>>)

\* frames[1] is the second frame (Python counts from 0): fs[2] here, and an
\* IndexError when there is exactly one frame
peek(vs, fs, n) ==
  LET index == Len(vs) - n
  IN  IF fs # <<>> /\ Len(fs) < 2 THEN StackResult("IndexError", vs, fs, <<>>)
      ELSE IF fs # <<>> /\ index <= fs[2] THEN StackResult("IndexError", vs, fs, <<>>)
      ELSE IF index < 0 THEN StackResult("IndexError", vs, fs, <<>>)
      ELSE IF index >= Len(vs) THEN StackResult("IndexError", vs, fs, <<>>)
      ELSE StackResult("none", vs, fs, << vs[index + 1] >>)

(***************************************************************************)
(* Opcode names as texts.  T_HALT is the literal run() compares with and   *)
(* the default it reads; the others are the names of the do_ methods.      *)
(***************************************************************************)
T_HALT == << "H", "A", "L", "T" >>
T_LOAD_CELL == << "L", "O", "A", "D", "_", "C", "E", "L", "L" >>
T_STORE_CELL == << "S", "T", "O", "R", "E", "_", "C", "E", "L", "L" >>
T_DROP == << "D", "R", "O", "P" >>
T_DUP == << "D", "U", "P" >>
T_OVER == << "O", "V", "E", "R" >>
T_SWAP == << "S", "W", "A", "P" >>
T_ADD == << "A", "D", "D" >>
T_SUB == << "S", "U", "B" >>
T_MULT == << "M", "U", "L", "T" >>
T_DIV == << "D", "I", "V" >>
T_FDIV == << "F", "D", "I", "V" >>
T_MOD == << "M", "O", "D" >>
T_UPPER == << "U", "P", "P", "E", "R" >>
T_LOWER == << "L", "O", "W", "E", "R" >>
T_CONCAT == << "C", "O", "N", "C", "A", "T" >>
T_IN == << "I", "N" >>
T_OUT == << "O", "U", "T" >>
T_TEST == << "T", "E", "S", "T" >>
T_COMPARE == << "C", "O", "M", "P", "A", "R", "E" >>
T_LT == << "L", "T" >>
T_GT == << "G", "T" >>
T_INVERT_COND == << "I", "N", "V", "E", "R", "T", "_", "C", "O", "N", "D" >>
T_JUMP == << "J", "U", "M", "P" >>
T_JUMP_IF == << "J", "U", "M", "P", "_", "I", "F" >>
T_CALL == << "C", "A", "L", "L" >>
T_CALL_IF == << "C", "A", "L", "L", "_", "I", "F" >>
T_RETURN == << "R", "E", "T", "U", "R", "N" >>
T_RAND == << "R", "A", "N", "D" >>
T_RANDINT == << "R", "A", "N", "D", "I", "N", "T" >>

\* the names X for which the Interpreter has an attribute do_X
HandlerNames ==
  { T_LOAD_CELL, T_STORE_CELL, T_DROP, T_DUP, T_OVER, T_SWAP,
    T_ADD, T_SUB, T_MULT, T_DIV, T_FDIV, T_MOD,
    T_UPPER, T_LOWER, T_CONCAT, T_IN, T_OUT, T_TEST,
    T_COMPARE, T_LT, T_GT, T_INVERT_COND, T_JUMP, T_JUMP_IF,
    T_CALL, T_CALL_IF, T_RETURN, T_RAND, T_RANDINT }

(***************************************************************************)
(* Float arithmetic, exact on rationals, with the sign of a zero result.   *)
(***************************************************************************)
RECURSIVE IsPow2(_)
IsPow2(d) == d = 1 \/ (d > 1 /\ d % 2 = 0 /\ IsPow2(d \div 2))

\* the floats on which Python's arithmetic is the rational arithmetic below
Exact(v) ==
  v.t = "float" => (Abs(v.n) <= MaxNum /\ v.d <= MaxDen /\ IsPow2(v.d))

FNeg(a) == IF a.n = 0 THEN FltZero(~a.z) ELSE PyFloat(-a.n, a.d)
FAdd(a, b) ==
  FltSigned(a.n * b.d + b.n * a.d, a.d * b.d, a.n = 0 /\ a.z /\ b.n = 0 /\ b.z)
FSub(a, b) == FAdd(a, FNeg(b))
FMul(a, b) == FltSigned(a.n * b.n, a.d * b.d, IsNegative(a) # IsNegative(b))
FDiv(a, b) ==
  LET n == a.n * b.d
      d == a.d * b.n
  IN  FltSigned(IF d < 0 THEN -n ELSE n, Abs(d), IsNegative(a) # IsNegative(b))
\* a - b*floor(a/b); a zero result takes the sign of the divisor
FMod(a, b) ==
  LET n == a.n * b.d
      d == a.d * b.n
      q == FloorDiv(IF d < 0 THEN -n ELSE n, Abs(d))
  IN  FltSigned(a.n * b.d - b.n * q * a.d, a.d * b.d, b.n < 0)

Value(v) == [err |-> "none", v |-> v]
Error(e) == [err |-> e, v |-> PyNone]

PyAdd(item1, item2) == Value(FAdd(item1, item2))
PySub(item1, item2) == Value(FSub(item1, item2))
PyMult(item1, item2) == Value(FMul(item1, item2))
PyDiv(item1, item2) ==
  IF item2.n = 0 THEN Error("ZeroDivisionError") ELSE Value(FDiv(item1, item2))
PyMod(item1, item2) ==
  IF item2.n = 0 THEN Error("ZeroDivisionError") ELSE Value(FMod(item1, item2))

\* int(x) of a float: truncation toward zero
Trunc(v) == IF v.n >= 0 THEN v.n \div v.d ELSE -((-v.n) \div v.d)

(***************************************************************************)
(* The opcode handlers, as functions of the interpreter's fields           *)
(*   self = [sheet, ip, values, frames, cond, ret_stack]                   *)
(* to [self, err, ret]: the fields when the handler returns or raises, the *)
(* exception raised ("none" if none), and whether it returned True.        *)
(***************************************************************************)
EMPTY == PyStr(<<>>)

Outcome(s, e, r) == [self |-> s, err |-> e, ret |-> r]
Raise(s, e) == Outcome(s, e, FALSE)
Return(s, r) == Outcome(s, "none", r)

\* self with the stack an operation of Stack left
WithStack(self, r) == [self EXCEPT !.values = r.values, !.frames = r.frames]

\* Interpreter.argument: [err, cell]
argument(index, n) ==
  [err |-> IF index[1] > 0 /\ index[2] > 0 THEN "none" ELSE "AssertionError",
   cell |-> << index[1] + n, index[2] >>]

\* Sheet.a1_to_index(self.sheet.read(self.argument(ip, 1)))
Arg1Address(self) ==
  a1_to_index(read(self.sheet, argument(self.ip, 1).cell, EMPTY))

do_LOAD_CELL(self) ==
  LET arg == argument(self.ip, 1)
      address == Arg1Address(self)
      value == read(self.sheet, << address.col, address.row >>, EMPTY)
  IN  IF arg.err # "none" THEN Raise(self, arg.err)
      ELSE IF address.err # "none" THEN Raise(self, address.err)
      ELSE Return(WithStack(self, push(self.values, self.frames, value)), FALSE)

do_STORE_CELL(self) ==
  LET arg == argument(self.ip, 1)
      address == Arg1Address(self)
      r == pop(self.values, self.frames)
  IN  IF arg.err # "none" THEN Raise(self, arg.err)
      ELSE IF address.err # "none" THEN Raise(self, address.err)
      ELSE IF r.err # "none" THEN Raise(self, r.err)
      ELSE Return([WithStack(self, r) EXCEPT
                     !.sheet = write(self.sheet, << address.col, address.row >>,
                                     r.ret[1])],
                  FALSE)

do_DROP(self) ==
  LET r == pop(self.values, self.frames)
  IN  IF r.err # "none" THEN Raise(self, r.err) ELSE Return(WithStack(self, r), FALSE)

\* stack.push(stack.peek(n))
PushPeek(self, n) ==
  LET r == peek(self.values, self.frames, n)
  IN  IF r.err # "none" THEN Raise(self, r.err)
      ELSE Return(WithStack(self, push(self.values, self.frames, r.ret[1])), FALSE)

do_DUP(self) == PushPeek(self, 1)
do_OVER(self) == PushPeek(self, 2)

\* a SWAP that pushes the two items back in the order they were popped
SwapKept(self) ==
  LET r == popn(self.values, self.frames, 2)
  IN  IF r.err # "none" THEN Raise(self, r.err)
      ELSE Return([self EXCEPT !.values = r.values \o << r.ret[1], r.ret[2] >>],
                  FALSE)

do_SWAP(self) ==
  LET r == popn(self.values, self.frames, 2)
  IN  IF r.err # "none" THEN Raise(self, r.err)
      ELSE Return([self EXCEPT !.values = r.values \o << r.ret[2], r.ret[1] >>],
                  FALSE)

\* [self, err, items]: the two values are popped before their types are looked at
_binary_arithmetic_check(self) ==
  LET r == popn(self.values, self.frames, 2)
  IN  IF r.err # "none" THEN [self |-> self, err |-> r.err, items |-> <<>>]
      ELSE IF ~(\A i \in 1..Len(r.ret) : r.ret[i].t = "float")
      THEN [self |-> WithStack(self, r), err |-> "ArithmeticError", items |-> r.ret]
      ELSE [self |-> WithStack(self, r), err |-> "none", items |-> r.ret]

\* item1 OP item2 of the handler do_<name>
BinaryOp(name, item1, item2) ==
  CASE name = T_ADD -> PyAdd(item1, item2)
    [] name = T_SUB -> PySub(item1, item2)
    [] name = T_MULT -> PyMult(item1, item2)
    [] name = T_DIV -> PyDiv(item1, item2)
    [] name = T_FDIV -> PyDiv(item1, item2)
    [] name = T_MOD -> PyMod(item1, item2)

\* item1,item2 = self._binary_arithmetic_check(stack); stack.push(item1 OP item2)
Arithmetic(self, name) ==
  LET c == _binary_arithmetic_check(self)
      x == BinaryOp(name, c.items[1], c.items[2])
  IN  IF c.err # "none" THEN Raise(c.self, c.err)
      ELSE IF x.err # "none" THEN Raise(c.self, x.err)
      ELSE Return(WithStack(c.self, push(c.self.values, c.self.frames, x.v)), FALSE)

do_ADD(self) == Arithmetic(self, T_ADD)
do_SUB(self) == Arithmetic(self, T_SUB)
do_MULT(self) == Arithmetic(self, T_MULT)
do_DIV(self) == Arithmetic(self, T_DIV)
do_FDIV(self) == Arithmetic(self, T_FDIV)
do_MOD(self) == Arithmetic(self, T_MOD)

\* whether an arithmetic opcode is followed here: exact operands and result
ArithmeticExact(self, name) ==
  LET c == _binary_arithmetic_check(self)
      x == BinaryOp(name, c.items[1], c.items[2])
  IN  c.err = "none" =>
        /\ Exact(c.items[1]) /\ Exact(c.items[2])
        /\ x.err = "none" => Exact(x.v)

\* stack.push(str(stack.pop()).upper()) and .lower()
Recase(self, name) ==
  LET r == pop(self.values, self.frames)
  IN  IF r.err # "none" THEN Raise(self, r.err)
      ELSE Return(WithStack(self, push(r.values, r.frames,
                                       PyStr(IF name = T_UPPER
                                             THEN Upper(StrOf(r.ret[1]))
                                             ELSE Lower(StrOf(r.ret[1]))))), FALSE)

do_UPPER(self) == Recase(self, T_UPPER)
do_LOWER(self) == Recase(self, T_LOWER)

do_CONCAT(self) ==
  LET r == popn(self.values, self.frames, 2)
  IN  IF r.err # "none" THEN Raise(self, r.err)
      ELSE Return(WithStack(self,
                    push(r.values, r.frames,
                         interpret_value(PyStr(StrOf(r.ret[1]) \o StrOf(r.ret[2]))))),
                  FALSE)

\* line is what input() returns; .rstrip() of a float prompt is an AttributeError
do_IN(self, line) ==
  LET arg == argument(self.ip, 1)
      prompt == read(self.sheet, arg.cell, EMPTY)
  IN  IF arg.err # "none" THEN Raise(self, arg.err)
      ELSE IF prompt.t # "str" THEN Raise(self, "AttributeError")
      ELSE Return(WithStack(self, push(self.values, self.frames,
                                       interpret_value(PyStr(line)))), FALSE)

do_OUT(self) ==
  LET r == pop(self.values, self.frames)
  IN  IF r.err # "none" THEN Raise(self, r.err) ELSE Return(WithStack(self, r), FALSE)

do_TEST(self) ==
  LET r == peek(self.values, self.frames, 1)
  IN  IF r.err # "none" THEN Raise(self, r.err)
      ELSE Return([self EXCEPT !.cond = PyEq(r.ret[1], PyInt(0))], FALSE)

\* do_COMPARE / do_LT / do_GT.  The try block holds the address decoding, the
\* read and the comparison with peek(1): any exception in it leads to the
\* except block, which compares peek(2) with peek(1).
PyGreater(a, b) == PyLess(b, a)

\* a == b, a < b or a > b, as do_<name> compares
Holds(name, a, b) ==
  CASE name = T_COMPARE -> PyEq(a, b)
    [] name = T_LT -> PyLess(a, b)
    [] name = T_GT -> PyGreater(a, b)

\* whether that comparison returns rather than raises TypeError
Comparable(name, a, b) == name = T_COMPARE \/ CanOrder(a, b)

\* The except block, given what peek(1) and peek(2) yield:
CompareTop2(self, p1, p2, name) ==
  IF p2.err # "none" THEN Raise(self, p2.err)
  ELSE IF p1.err # "none" THEN Raise(self, p1.err)
  ELSE IF ~Comparable(name, p2.ret[1], p1.ret[1]) THEN Raise(self, "TypeError")
  ELSE Return([self EXCEPT !.cond = Holds(name, p2.ret[1], p1.ret[1])], FALSE)

\* The try block, given the decoded address, the value read there and peek(1):
CompareCell(self, address, value, p1, name) ==
  IF address.err = "none" /\ p1.err = "none" /\ Comparable(name, p1.ret[1], value)
  THEN Return([self EXCEPT !.cond = Holds(name, p1.ret[1], value)], FALSE)
  ELSE CompareTop2(self, p1, peek(self.values, self.frames, 2), name)

\* the value at a decoded address
ValueAt(self, address) ==
  read(self.sheet, << address.col, address.row >>, EMPTY)

Comparison(self, name) ==
  IF argument(self.ip, 1).err # "none" THEN Raise(self, argument(self.ip, 1).err)
  ELSE CompareCell(self, Arg1Address(self), ValueAt(self, Arg1Address(self)),
                   peek(self.values, self.frames, 1), name)

do_COMPARE(self) == Comparison(self, T_COMPARE)
do_LT(self) == Comparison(self, T_LT)
do_GT(self) == Comparison(self, T_GT)

do_INVERT_COND(self) == Return([self EXCEPT !.cond = ~self.cond], FALSE)

do_JUMP(self) ==
  LET arg == argument(self.ip, 1)
      address == Arg1Address(self)
  IN  IF arg.err # "none" THEN Raise(self, arg.err)
      ELSE IF address.err # "none" THEN Raise(self, address.err)
      ELSE Return([self EXCEPT !.ip = << address.col, address.row >>], TRUE)

\* a JUMP_IF that consumes the flag it read
JumpIfConsuming(self) ==
  IF self.cond THEN do_JUMP([self EXCEPT !.cond = FALSE]) ELSE Return(self, FALSE)

do_JUMP_IF(self) == IF self.cond THEN do_JUMP(self) ELSE Return(self, FALSE)

\* args of do_CALL: read(argument(ip, 2), 0), and 0 for a text
CallArgs(self) ==
  LET args == read(self.sheet, argument(self.ip, 2).cell, PyInt(0))
  IN  IF args.t = "str" THEN PyInt(0) ELSE args

\* do_CALL once the address is decoded and the argument count read
CallAt(self, address, args) ==
  IF address.err # "none" THEN Raise(self, address.err)
  ELSE IF push_frame(self.values, self.frames, args).err # "none"
  THEN Raise(self, push_frame(self.values, self.frames, args).err)
  ELSE Return([self EXCEPT
                 !.frames = push_frame(self.values, self.frames, args).frames,
                 !.ret_stack = Append(self.ret_stack, self.ip),
                 !.ip = << address.col, address.row >>],
              TRUE)

do_CALL(self) ==
  IF argument(self.ip, 1).err # "none" THEN Raise(self, argument(self.ip, 1).err)
  ELSE CallAt(self, Arg1Address(self), CallArgs(self).n)

do_CALL_IF(self) == IF self.cond THEN do_CALL(self) ELSE Return(self, FALSE)

do_RETURN(self) ==
  IF self.ret_stack = <<>> THEN Raise(self, "IndexError")
  ELSE Return([WithStack(self, pop_frame(self.values, self.frames)) EXCEPT
                 !.ip = Last(self.ret_stack),
                 !.ret_stack = Front(self.ret_stack)],
              FALSE)

\* a number as a float
AsFloat(v) == IF v.t = "float" THEN v ELSE PyFloat(v.n, 1)

\* m if it is a float, else the default
FloatOr(m, default) == IF m.t # "float" THEN default ELSE m

\* random.random() or random.uniform(m, n), u being what random.random() returns
RandomValue(m, n, u) ==
  IF PyEq(m, PyInt(0)) /\ PyEq(n, PyInt(1)) THEN u
  ELSE FAdd(AsFloat(m), FMul(FSub(AsFloat(n), AsFloat(m)), u))

do_RAND(self, u) ==
  IF argument(self.ip, 1).err # "none" THEN Raise(self, argument(self.ip, 1).err)
  ELSE Return(WithStack(self,
                push(self.values, self.frames,
                     RandomValue(
                       FloatOr(read(self.sheet, argument(self.ip, 1).cell, PyInt(0)),
                               PyInt(0)),
                       FloatOr(read(self.sheet, argument(self.ip, 2).cell, PyInt(1)),
                               PyInt(1)),
                       u))),
              FALSE)

\* the bounds handed to random.randint, given int(m) and the second argument:
\* "if m and not n: n=m; m=1", n being None unless the argument is a float
RandintRange(m, n0) ==
  IF n0.t # "float"
  THEN (IF m # 0 THEN [err |-> "none", m |-> 1, n |-> m]
        ELSE [err |-> "TypeError", m |-> m, n |-> 0])
  ELSE IF m # 0 /\ Trunc(n0) = 0 THEN [err |-> "none", m |-> 1, n |-> m]
  ELSE [err |-> "none", m |-> m, n |-> Trunc(n0)]

RandintArgs(m0, n0) ==
  IF m0.t # "float" THEN [err |-> "InvalidArgument", m |-> 0, n |-> 0]
  ELSE RandintRange(Trunc(m0), n0)

\* the bounds do_RANDINT hands to random.randint: [err, m, n]
RandintBounds(self) ==
  IF argument(self.ip, 1).err # "none"
  THEN [err |-> argument(self.ip, 1).err, m |-> 0, n |-> 0]
  ELSE RandintArgs(read(self.sheet, argument(self.ip, 1).cell, EMPTY),
                   read(self.sheet, argument(self.ip, 2).cell, EMPTY))

\* push k unless the bounds b raised or are an empty range (a ValueError)
RandintPush(self, b, k) ==
  IF b.err # "none" THEN Raise(self, b.err)
  ELSE IF b.m > b.n THEN Raise(self, "ValueError")
  ELSE Return(WithStack(self, push(self.values, self.frames, PyInt(k))), FALSE)

\* k is what random.randint(m, n) returns
do_RANDINT(self, k) == RandintPush(self, RandintBounds(self), k)

(***************************************************************************)
(* The interpreter as a state machine.                                     *)
(*   sheet                    Sheet.values                                 *)
(*   start                    Interpreter._start                           *)
(*   ip, cond, ret_stack      the Interpreter's fields                     *)
(*   values, frames           Interpreter.stack (a Stack)                  *)
(*   status                   "idle" before run() is entered, "running"    *)
(*                            inside its loop, "halted" once it returned,  *)
(*                            "error" once an exception left it            *)
(*   err                      the exception that left run(), or "none"     *)
(*   op                       the upper-cased opcode run() dispatched last *)
(*   loaded, resets           rows written and reset() calls so far        *)
(*   family                   the program family the loader draws from     *)
(*   res                      what the last direct call of a Stack method  *)
(*                            returned or raised: [op, n, err, ret]        *)
(***************************************************************************)
VARIABLES sheet, start, ip, values, frames, cond, ret_stack,
          status, err, op, loaded, resets, family, res

vars == << sheet, start, ip, values, frames, cond, ret_stack,
           status, err, op, loaded, resets, family, res >>

\* the fields the handlers work on
Self ==
  [sheet |-> sheet, ip |-> ip, values |-> values, frames |-> frames,
   cond |-> cond, ret_stack |-> ret_stack]

NoCall == [op |-> "none", n |-> 0, err |-> "none", ret |-> <<>>]

\* opcode = self.sheet.read(self.ip, "HALT")
Fetch(sh, at) == read(sh, at, PyStr(T_HALT))
Opcode == Fetch(sheet, ip)

\* if opcode=="HALT" or type(opcode)!=str: return
Halts(opcode) == opcode = PyStr(T_HALT) \/ opcode.t # "str"

\* getattr(self, "do_"+opcode.upper()): the exception it raises, or "none"
Getattr(name) == IF name \in HandlerNames THEN "none" ELSE "AttributeError"

\* a loop that never advances
NoAdvance(out) == out.self.ip

\* if not method(self.ip, self.stack): self.ip[1] += 1
AutoAdvance(out) ==
  IF out.err = "none" /\ ~out.ret
  THEN << out.self.ip[1], out.self.ip[2] + 1 >>
  ELSE out.self.ip

\* the states the run is followed into
Bounded(self) ==
  /\ Len(self.values) <= MaxStack
  /\ Len(self.ret_stack) <= MaxCalls
  /\ \A i \in 1..Len(self.values) : Len(self.values[i].s) <= MaxText

\* run()'s loop finds the handler of `name` at the instruction pointer
Dispatches(name) ==
  /\ status # "error"
  /\ ip \in DOMAIN sheet
  /\ ~Halts(Opcode)
  /\ Upper(Opcode.s) = name

\* one turn of run()'s loop with the handler's outcome `out`; the turn is
\* followed where `followed` holds and the outcome is within the bounds
Exec(name, out, followed) ==
  /\ followed
  /\ \E o \in { out } :
       /\ Bounded(o.self)
       /\ sheet' = o.self.sheet
       /\ values' = o.self.values
       /\ frames' = o.self.frames
       /\ cond' = o.self.cond
       /\ ret_stack' = o.self.ret_stack
       /\ ip' = AutoAdvance(o)
       /\ status' = IF o.err = "none" THEN "running" ELSE "error"
       /\ err' = o.err
       /\ op' = name
       /\ UNCHANGED << start, loaded, resets, family, res >>

\* run() returns at a halting cell
Halt ==
  /\ status # "error"
  /\ Halts(Opcode)
  /\ status' = "halted"
  /\ err' = "none"
  /\ op' = T_HALT
  /\ UNCHANGED << sheet, start, ip, values, frames, cond, ret_stack,
                  loaded, resets, family, res >>

\* run() at a text that names no handler
NoHandler ==
  /\ status # "error"
  /\ ~Halts(Opcode)
  /\ Getattr(Upper(Opcode.s)) # "none"
  /\ status' = "error"
  /\ err' = Getattr(Upper(Opcode.s))
  /\ op' = Upper(Opcode.s)
  /\ UNCHANGED << sheet, start, ip, values, frames, cond, ret_stack,
                  loaded, resets, family, res >>

Step_LOAD_CELL ==
  /\ Dispatches(T_LOAD_CELL)
  /\ Exec(T_LOAD_CELL, do_LOAD_CELL(Self), TRUE)

Step_STORE_CELL ==
  /\ Dispatches(T_STORE_CELL)
  /\ Exec(T_STORE_CELL, do_STORE_CELL(Self), TRUE)

Step_DROP ==
  /\ Dispatches(T_DROP)
  /\ Exec(T_DROP, do_DROP(Self), TRUE)

Step_DUP ==
  /\ Dispatches(T_DUP)
  /\ Exec(T_DUP, do_DUP(Self), TRUE)

Step_OVER ==
  /\ Dispatches(T_OVER)
  /\ Exec(T_OVER, do_OVER(Self), TRUE)

Step_SWAP ==
  /\ Dispatches(T_SWAP)
  /\ Exec(T_SWAP, do_SWAP(Self), TRUE)

Step_ADD ==
  /\ Dispatches(T_ADD)
  /\ Exec(T_ADD, do_ADD(Self), ArithmeticExact(Self, T_ADD))

Step_SUB ==
  /\ Dispatches(T_SUB)
  /\ Exec(T_SUB, do_SUB(Self), ArithmeticExact(Self, T_SUB))

Step_MULT ==
  /\ Dispatches(T_MULT)
  /\ Exec(T_MULT, do_MULT(Self), ArithmeticExact(Self, T_MULT))

Step_DIV ==
  /\ Dispatches(T_DIV)
  /\ Exec(T_DIV, do_DIV(Self), ArithmeticExact(Self, T_DIV))

Step_FDIV ==
  /\ Dispatches(T_FDIV)
  /\ Exec(T_FDIV, do_FDIV(Self), ArithmeticExact(Self, T_FDIV))

Step_MOD ==
  /\ Dispatches(T_MOD)
  /\ Exec(T_MOD, do_MOD(Self), ArithmeticExact(Self, T_MOD))

Step_UPPER ==
  /\ Dispatches(T_UPPER)
  /\ Exec(T_UPPER, do_UPPER(Self), TRUE)

Step_LOWER ==
  /\ Dispatches(T_LOWER)
  /\ Exec(T_LOWER, do_LOWER(Self), TRUE)

Step_CONCAT ==
  /\ Dispatches(T_CONCAT)
  /\ Exec(T_CONCAT, do_CONCAT(Self), TRUE)

Step_OUT ==
  /\ Dispatches(T_OUT)
  /\ Exec(T_OUT, do_OUT(Self), TRUE)

Step_TEST ==
  /\ Dispatches(T_TEST)
  /\ Exec(T_TEST, do_TEST(Self), TRUE)

Step_COMPARE ==
  /\ Dispatches(T_COMPARE)
  /\ Exec(T_COMPARE, do_COMPARE(Self), TRUE)

Step_LT ==
  /\ Dispatches(T_LT)
  /\ Exec(T_LT, do_LT(Self), TRUE)

Step_GT ==
  /\ Dispatches(T_GT)
  /\ Exec(T_GT, do_GT(Self), TRUE)

Step_INVERT_COND ==
  /\ Dispatches(T_INVERT_COND)
  /\ Exec(T_INVERT_COND, do_INVERT_COND(Self), TRUE)

Step_JUMP ==
  /\ Dispatches(T_JUMP)
  /\ Exec(T_JUMP, do_JUMP(Self), TRUE)

Step_JUMP_IF ==
  /\ Dispatches(T_JUMP_IF)
  /\ Exec(T_JUMP_IF, do_JUMP_IF(Self), TRUE)

Step_CALL ==
  /\ Dispatches(T_CALL)
  /\ Exec(T_CALL, do_CALL(Self), CallArgs(Self).d = 1)

Step_CALL_IF ==
  /\ Dispatches(T_CALL_IF)
  /\ Exec(T_CALL_IF, do_CALL_IF(Self), CallArgs(Self).d = 1)

Step_RETURN ==
  /\ Dispatches(T_RETURN)
  /\ Exec(T_RETURN, do_RETURN(Self), TRUE)

\* the lines the console may hand to input()
Inputs == { << "2" >>, << "-", "1", ".", "5" >>, << "0" >>, << "x" >> }

Step_IN ==
  /\ Dispatches(T_IN)
  /\ \E line \in Inputs : Exec(T_IN, do_IN(Self, line), TRUE)

\* the values random.random() may return
RandomUnit == { PyFloat(0, 1), PyFloat(1, 2) }

Step_RAND ==
  /\ Dispatches(T_RAND)
  /\ \E u \in RandomUnit : Exec(T_RAND, do_RAND(Self, u), TRUE)

\* what random.randint may return for bounds b; 0 stands in where it raises
Outcomes(b) == IF b.err = "none" /\ b.m <= b.n THEN b.m .. b.n ELSE {0}
RandintOutcomes(self) == Outcomes(RandintBounds(self))

Step_RANDINT ==
  /\ Dispatches(T_RANDINT)
  /\ \E k \in RandintOutcomes(Self) : Exec(T_RANDINT, do_RANDINT(Self, k), TRUE)

\* a reset that leaves the condition flag as it is
ResetButFlag(self, st) ==
  [self EXCEPT !.ip = st, !.values = <<>>, !.frames = <<>>,
               !.ret_stack = <<>>]

\* Interpreter.reset()
reset(self, st) ==
  [self EXCEPT !.ip = st, !.values = <<>>, !.frames = <<>>,
               !.cond = FALSE, !.ret_stack = <<>>]

\* reset() is called between runs: after run() returned or raised
Reset ==
  /\ resets < MaxResets
  /\ status \in { "halted", "error" }
  /\ resets' = resets + 1
  /\ ip' = reset(Self, start).ip
  /\ values' = reset(Self, start).values
  /\ frames' = reset(Self, start).frames
  /\ cond' = reset(Self, start).cond
  /\ ret_stack' = reset(Self, start).ret_stack
  /\ sheet' = reset(Self, start).sheet
  /\ status' = "idle"
  /\ err' = "none"
  /\ op' = <<>>
  /\ UNCHANGED << start, loaded, family, res >>

(***************************************************************************)
(* Loading.  A row of text fields is written with Sheet.write into the     *)
(* cells (column, row), (column+1, row), ... at the instruction pointer,   *)
(* where no cell has been written yet: the opcode and its arguments.       *)
(* The rows come from one of four program families.                        *)
(***************************************************************************)
RECURSIVE WriteRow(_, _, _)
WriteRow(sh, at, row) ==
  IF row = <<>> THEN sh
  ELSE WriteRow(write(sh, at, PyStr(row[1])), << at[1] + 1, at[2] >>, Tail(row))

\* calls, jumps and the condition flag
CtlRows ==
  { << T_LOAD_CELL, << "B", "1" >> >>,
    << T_INVERT_COND >>,
    << T_CALL, << "G", "1" >> >>,
    << T_CALL, << "G", "1" >>, << "1" >> >>,
    << T_CALL, << "J", "1" >> >>,
    << T_CALL_IF, << "J", "1" >>, << "1" >> >>,
    << T_JUMP, << "J", "1" >> >>,
    << T_JUMP_IF, << "J", "1" >> >>,
    << T_RETURN >> }

\* arithmetic and stack shuffling on what IN, RANDINT and RAND push
ArithRows ==
  { << T_IN >>,
    << T_RANDINT, << "2" >> >>,
    << T_RAND >>,
    << T_DUP >>,
    << T_OVER >>,
    << T_SWAP >>,
    << T_DROP >>,
    << T_TEST >>,
    << T_ADD >>,
    << T_SUB >>,
    << T_MULT >>,
    << T_DIV >>,
    << T_FDIV >>,
    << T_MOD >> }

\* cells, texts and comparisons
MemRows ==
  { << T_IN >>,
    << T_LOAD_CELL, << "D", "1" >> >>,
    << T_STORE_CELL, << "D", "1" >> >>,
    << T_UPPER >>,
    << T_LOWER >>,
    << T_CONCAT >>,
    << T_OUT >>,
    << T_COMPARE, << "C", "3" >>, << "2" >> >>,
    << T_COMPARE >>,
    << T_LT, << "C", "3" >>, << "2" >> >>,
    << T_LT >>,
    << T_GT, << "C", "3" >>, << "2" >> >>,
    << T_GT >> }

\* halting cells, unknown and lower-case opcodes, malformed arguments
MiscRows ==
  { << T_HALT >>,
    << << "h", "a", "l", "t" >> >>,
    << <<>> >>,
    << << "5" >> >>,
    << << "0" >> >>,
    << << "N", "O", "P" >> >>,
    << << "d", "u", "p" >> >>,
    << << "A", "d", "d" >> >>,
    << << "j", "u", "m", "p" >>, << "a", "2" >> >>,
    << T_IN, << "5" >> >>,
    << T_LOAD_CELL, << "x" >> >>,
    << T_STORE_CELL, << "1" >> >>,
    << T_JUMP, << "A", "0" >> >>,
    << T_CALL, << "G" >> >>,
    << T_CALL, << "G", "1" >>, << "2" >> >>,
    << T_RAND, << "2" >>, << "4" >> >>,
    << T_RANDINT >>,
    << T_RANDINT, << "0" >>, << "2" >> >>,
    << T_RANDINT, << "0" >> >> }

\* programs that are run, reset and run again: input, a stored cell, the
\* flag, a call, a jump, a failing return and an unknown opcode
ResetRows ==
  { << T_IN >>,
    << T_STORE_CELL, << "D", "1" >> >>,
    << T_LOAD_CELL, << "D", "1" >> >>,
    << T_INVERT_COND >>,
    << T_CALL, << "G", "1" >>, << "1" >> >>,
    << T_JUMP, << "J", "1" >> >>,
    << T_RETURN >>,
    << << "N", "O", "P" >> >> }

\* stack shuffling at the top level and inside subroutines
ShuffleRows ==
  { << T_IN >>,
    << T_SWAP >>,
    << T_DROP >>,
    << T_CALL, << "G", "1" >>, << "1" >> >>,
    << T_CALL, << "G", "1" >>, << "2" >> >>,
    << T_RETURN >> }

\* programs without JUMP, JUMP_IF, CALL and CALL_IF.  STORE_CELL A4 lets a
\* program write a cell it is going to reach.
StraightRows ==
  { << T_IN >>,
    << T_DUP >>,
    << T_DROP >>,
    << T_ADD >>,
    << T_UPPER >>,
    << T_TEST >>,
    << T_OUT >>,
    << T_LOAD_CELL, << "D", "1" >> >>,
    << T_STORE_CELL, << "A", "4" >> >>,
    << T_RETURN >>,
    << << "N", "O", "P" >> >> }

Families == { "ctl", "arith", "mem", "misc" }

FamilyRows(f) ==
  CASE f = "ctl" -> CtlRows
    [] f = "arith" -> ArithRows
    [] f = "mem" -> MemRows
    [] f = "reset" -> ResetRows
    [] f = "shuffle" -> ShuffleRows
    [] f = "straight" -> StraightRows
    [] OTHER -> MiscRows \cup CtlRows \cup ArithRows \cup MemRows

FamilyMax(f) ==
  CASE f = "ctl" -> MaxCtlRows
    [] f \in {"arith", "mem"} -> MaxDataRows
    [] f = "reset" -> MaxResetRows
    [] f = "shuffle" -> MaxShuffleRows
    [] f = "straight" -> MaxStraightRows
    [] OTHER -> MaxMiscRows

\* Interpreter(Sheet()): an empty sheet, start = [1,1], then reset()
Init ==
  /\ sheet = EmptySheet
  /\ start = << 1, 1 >>
  /\ ip = << 1, 1 >>
  /\ values = <<>>
  /\ frames = <<>>
  /\ cond = FALSE
  /\ ret_stack = <<>>
  /\ status = "idle"
  /\ err = "none"
  /\ op = <<>>
  /\ loaded = 0
  /\ resets = 0
  /\ family \in Families
  /\ res = NoCall

\* the rows are written before the first reset(): cells not written by then
\* stay blank
LoadRow(row) ==
  /\ status # "error"
  /\ resets = 0
  /\ loaded < FamilyMax(family)
  /\ ip \notin DOMAIN sheet
  /\ ip[2] >= 1
  /\ sheet' = WriteRow(sheet, ip, row)
  /\ loaded' = loaded + 1
  /\ status' = "idle"
  /\ op' = <<>>
  /\ UNCHANGED << start, ip, values, frames, cond, ret_stack, err, resets,
                  family, res >>

Load == \E row \in FamilyRows(family) : LoadRow(row)

Next ==
  \/ Load
  \/ Halt
  \/ NoHandler
  \/ Step_LOAD_CELL
  \/ Step_STORE_CELL
  \/ Step_DROP
  \/ Step_DUP
  \/ Step_OVER
  \/ Step_SWAP
  \/ Step_ADD
  \/ Step_SUB
  \/ Step_MULT
  \/ Step_DIV
  \/ Step_FDIV
  \/ Step_MOD
  \/ Step_UPPER
  \/ Step_LOWER
  \/ Step_CONCAT
  \/ Step_IN
  \/ Step_OUT
  \/ Step_TEST
  \/ Step_COMPARE
  \/ Step_LT
  \/ Step_GT
  \/ Step_INVERT_COND
  \/ Step_JUMP
  \/ Step_JUMP_IF
  \/ Step_CALL
  \/ Step_CALL_IF
  \/ Step_RETURN
  \/ Step_RAND
  \/ Step_RANDINT

Spec == Init /\ [][Next]_vars

\* Interpreter(Sheet(), start): the start address is A1 or "B2", converted
\* by a1_to_index; programs of the reset family are run, reset and run again
StartB2 == a1_to_index(PyStr(<< "B", "2" >>))
ResetStarts == { << 1, 1 >>, << StartB2.col, StartB2.row >> }

InitReset ==
  /\ sheet = EmptySheet
  /\ start \in ResetStarts
  /\ ip = start
  /\ values = <<>>
  /\ frames = <<>>
  /\ cond = FALSE
  /\ ret_stack = <<>>
  /\ status = "idle"
  /\ err = "none"
  /\ op = <<>>
  /\ loaded = 0
  /\ resets = 0
  /\ family = "reset"
  /\ res = NoCall

NextReset ==
  \/ Load
  \/ Halt
  \/ NoHandler
  \/ Step_IN
  \/ Step_STORE_CELL
  \/ Step_LOAD_CELL
  \/ Step_INVERT_COND
  \/ Step_CALL
  \/ Step_JUMP
  \/ Step_RETURN
  \/ Reset

SpecReset == InitReset /\ [][NextReset]_vars

\* programs of the shuffle family on Interpreter(Sheet())
InitShuffle ==
  /\ sheet = EmptySheet
  /\ start = << 1, 1 >>
  /\ ip = start
  /\ values = <<>>
  /\ frames = <<>>
  /\ cond = FALSE
  /\ ret_stack = <<>>
  /\ status = "idle"
  /\ err = "none"
  /\ op = <<>>
  /\ loaded = 0
  /\ resets = 0
  /\ family = "shuffle"
  /\ res = NoCall

NextShuffle ==
  \/ Load
  \/ Halt
  \/ Step_IN
  \/ Step_SWAP
  \/ Step_DROP
  \/ Step_CALL
  \/ Step_RETURN

SpecShuffle == InitShuffle /\ [][NextShuffle]_vars

\* programs of the straight family on Interpreter(Sheet())
InitStraight ==
  /\ sheet = EmptySheet
  /\ start = << 1, 1 >>
  /\ ip = start
  /\ values = <<>>
  /\ frames = <<>>
  /\ cond = FALSE
  /\ ret_stack = <<>>
  /\ status = "idle"
  /\ err = "none"
  /\ op = <<>>
  /\ loaded = 0
  /\ resets = 0
  /\ family = "straight"
  /\ res = NoCall

NextStraight ==
  \/ Load
  \/ Halt
  \/ NoHandler
  \/ Step_IN
  \/ Step_DUP
  \/ Step_DROP
  \/ Step_ADD
  \/ Step_UPPER
  \/ Step_TEST
  \/ Step_OUT
  \/ Step_LOAD_CELL
  \/ Step_STORE_CELL
  \/ Step_RETURN

\* run() is one loop in one thread: while a turn of the loop is possible, one
\* is taken
SpecStraight == InitStraight /\ [][NextStraight]_vars /\ WF_vars(NextStraight)

(***************************************************************************)
(* The Stack class driven directly: any sequence of push, pop, popn, peek, *)
(* push_frame and pop_frame on one Stack().  res records the last call.    *)
(***************************************************************************)
\* the items pushed
Items == { PyFloat(1, 1), PyFloat(2, 1), PyStr(<< "x" >>) }

InitStack ==
  /\ sheet = EmptySheet
  /\ start = << 1, 1 >>
  /\ ip = << 1, 1 >>
  /\ values = <<>>
  /\ frames = <<>>
  /\ cond = FALSE
  /\ ret_stack = <<>>
  /\ status = "idle"
  /\ err = "none"
  /\ op = <<>>
  /\ loaded = 0
  /\ resets = 0
  /\ family = "stack"
  /\ res = NoCall

\* what a call of the Stack method `name` with argument n and outcome r leaves
Called(name, n, r) == [op |-> name, n |-> n, err |-> r.err, ret |-> r.ret]

Applied(r) ==
  /\ values' = r.values
  /\ frames' = r.frames
  /\ UNCHANGED << sheet, start, ip, cond, ret_stack, status, err, op,
                  loaded, resets, family >>

Push ==
  /\ Len(values) < MaxDepth
  /\ \E item \in Items :
       /\ res' = Called("push", 0, push(values, frames, item))
       /\ Applied(push(values, frames, item))

Pop ==
  /\ res' = Called("pop", 1, pop(values, frames))
  /\ Applied(pop(values, frames))

Popn ==
  \E n \in 0..MaxArg :
    /\ res' = Called("popn", n, popn(values, frames, n))
    /\ Applied(popn(values, frames, n))

Peek ==
  \E n \in 0..MaxArg :
    /\ res' = Called("peek", n, peek(values, frames, n))
    /\ Applied(peek(values, frames, n))

PushFrame ==
  /\ Len(frames) < MaxFrames
  /\ \E args \in 0..MaxArg :
       /\ res' = Called("push_frame", args, push_frame(values, frames, args))
       /\ Applied(push_frame(values, frames, args))

PopFrame ==
  /\ res' = Called("pop_frame", 0, pop_frame(values, frames))
  /\ Applied(pop_frame(values, frames))

NextStack ==
  \/ Push
  \/ Pop
  \/ Popn
  \/ Peek
  \/ PushFrame
  \/ PopFrame

SpecStack == InitStack /\ [][NextStack]_vars

(***************************************************************************)
(* The coordinate codec applied to inputs: a pair of ints in ip, a text in *)
(* op.  res records the last call, with a returned pair as two ints.       *)
(***************************************************************************)
AddressChars == { "A", "Z", "b", "0", "1", "9", "-", " " }
AddressTexts == UNION { [1..n -> AddressChars] : n \in 0..MaxAddr }
Pairs == (0..MaxCol) \X (0..MaxRow)

InitCodec ==
  /\ \/ ip \in Pairs /\ op = <<>>
     \/ ip = << 1, 1 >> /\ op \in AddressTexts
  /\ sheet = EmptySheet
  /\ start = << 1, 1 >>
  /\ values = <<>>
  /\ frames = <<>>
  /\ cond = FALSE
  /\ ret_stack = <<>>
  /\ status = "idle"
  /\ err = "none"
  /\ loaded = 0
  /\ resets = 0
  /\ family = "codec"
  /\ res = NoCall

\* the pair a1_to_index returned, as the values returned
PairOf(a) == IF a.err = "none" THEN << PyInt(a.col), PyInt(a.row) >> ELSE <<>>

IndexToA1 ==
  /\ res' = [op |-> "index_to_a1", n |-> 0, err |-> index_to_a1(ip).err,
             ret |-> << PyStr(index_to_a1(ip).s) >>]
  /\ UNCHANGED << sheet, start, ip, values, frames, cond, ret_stack, status,
                  err, op, loaded, resets, family >>

A1ToIndex ==
  /\ res' = [op |-> "a1_to_index", n |-> 0, err |-> a1_to_index(PyStr(op)).err,
             ret |-> PairOf(a1_to_index(PyStr(op)))]
  /\ UNCHANGED << sheet, start, ip, values, frames, cond, ret_stack, status,
                  err, op, loaded, resets, family >>

NextCodec ==
  \/ IndexToA1
  \/ A1ToIndex

SpecCodec == InitCodec /\ [][NextCodec]_vars

(***************************************************************************)
(* Properties.                                                             *)
(***************************************************************************)
\* the cell below a cell
Below(at) == << at[1], at[2] + 1 >>

\* the step is a turn of run()'s loop whose handler returned
Executed == status' = "running" /\ resets' = resets

\* the executed opcode transferred control
Transfers ==
  \/ op' \in { T_JUMP, T_CALL }
  \/ op' \in { T_JUMP_IF, T_CALL_IF } /\ cond

\* the executed opcode was a call that was taken
Calls == op' = T_CALL \/ (op' = T_CALL_IF /\ cond)

\* the address the cell at argument 1 decodes to
Target == << Arg1Address(Self).col, Arg1Address(Self).row >>

\* the interpreter's fields are left as they are
Untouched == UNCHANGED << sheet, ip, values, frames, cond, ret_stack >>

\* C1: call/return is LIFO and resumes after the call.  A taken CALL or
\* CALL_IF appends the call cell to the return-address stack and the marker
\* len(values) - n to the frame list; RETURN pops both and leaves the
\* instruction pointer one row below the most recent outstanding call cell;
\* neither removes an operand, no other opcode touches the two lists, and
\* the two lists always have the same length.
C1_CallReturn ==
  [][ /\ (Executed /\ Calls) =>
           /\ ret_stack' = Append(ret_stack, ip)
           /\ frames' = Append(frames, Len(values) - CallArgs(Self).n)
           /\ values' = values
      /\ (Executed /\ op' = T_RETURN) =>
           /\ ret_stack # <<>>
           /\ ip' = Below(Last(ret_stack))
           /\ ret_stack' = Front(ret_stack)
           /\ frames' = Front(frames)
           /\ values' = values
      /\ (Executed /\ ~Calls /\ op' # T_RETURN) =>
           UNCHANGED << ret_stack, frames >>
      /\ Len(frames') = Len(ret_stack')
    ]_vars

\* a RETURN from a nested call into a callee entered with one reserved value
C1_Witness ==
  /\ op = T_RETURN
  /\ status = "running"
  /\ ip = << 7, 2 >>
  /\ ret_stack = << << 1, 2 >> >>
  /\ frames = << 0 >>
  /\ Len(values) = 1

\* C2: frame protection.  While a frame is active, a pop, popn or peek that
\* succeeds reads or removes no value at a position (from 0) lower than the
\* top-most frame boundary.
C2_FrameProtection ==
  [][ (frames # <<>> /\ res'.err = "none") =>
        /\ res'.op = "pop" => Len(values) - 1 >= Last(frames)
        /\ (res'.op = "popn" /\ res'.ret # <<>>) =>
             Len(values) - Len(res'.ret) >= Last(frames)
        /\ res'.op = "peek" => Len(values) - res'.n >= Last(frames)
    ]_vars

\* C3 as stated: after every executed opcode the instruction pointer is the
\* decoded target if the opcode transferred control, and otherwise the row
\* below the previous pointer.
C3_AdvanceRule ==
  [][ Executed =>
        IF Transfers THEN ip' = Target ELSE ip' = Below(ip)
    ]_vars

\* C3, amended: the same for every opcode but RETURN, which leaves the
\* pointer on the row below the call cell it returns to; JUMP_IF and CALL_IF
\* with the flag clear change nothing but that one-row advance.
C3_AdvanceRuleExceptReturn ==
  [][ Executed =>
        /\ IF Transfers THEN ip' = Target
           ELSE IF op' = T_RETURN THEN ip' = Below(Last(ret_stack))
           ELSE ip' = Below(ip)
        /\ (op' \in { T_JUMP_IF, T_CALL_IF } /\ ~cond) =>
             UNCHANGED << sheet, values, frames, cond, ret_stack >>
    ]_vars

\* a CALL_IF taken with the flag set and one reserved value
C3_Witness ==
  /\ op = T_CALL_IF
  /\ status = "running"
  /\ cond
  /\ ip = << 10, 1 >>
  /\ Len(values) = 1

\* the cell at the instruction pointer is blank, holds a number or holds the
\* halt opcode
HaltCell ==
  \/ ip \notin DOMAIN sheet
  \/ StrOf(sheet[ip]) = <<>>
  \/ _safe_float(StrOf(sheet[ip])) # PyNone
  \/ sheet[ip] = PyStr(T_HALT)

\* C4: normal halt.  At a cell that is blank (never written, or written with
\* empty text), holds a number or holds the halt opcode, run() stops without
\* an error or a handler and leaves the interpreter as it is.
C4_NormalHalt ==
  [][ (status # "error" /\ HaltCell /\ loaded' = loaded) =>
        /\ status' = "halted"
        /\ err' = "none"
        /\ Untouched
    ]_vars

\* what a read of a written value v is to return: the number v's text
\* parses as, else the text
Interpreted(v) ==
  IF _safe_float(StrOf(v)) # PyNone THEN _safe_float(StrOf(v)) ELSE PyStr(StrOf(v))

\* C5: value interpretation.  Every cell written, by the loader or by
\* STORE_CELL, reads back as the number its text parses as, and as its text
\* when it parses as none.
C5_ValueInterpretation ==
  \A at \in DOMAIN sheet : read(sheet, at, EMPTY) = Interpreted(sheet[at])

ArithmeticNames == { T_ADD, T_SUB, T_MULT, T_DIV, T_FDIV, T_MOD }

\* item1 OP item2 for the opcode `name`
OpResult(name, item1, item2) ==
  CASE name = T_ADD -> PyAdd(AsFloat(item1), AsFloat(item2))
    [] name = T_SUB -> PySub(AsFloat(item1), AsFloat(item2))
    [] name = T_MULT -> PyMult(AsFloat(item1), AsFloat(item2))
    [] name = T_MOD -> PyMod(AsFloat(item1), AsFloat(item2))
    [] OTHER -> PyDiv(AsFloat(item1), AsFloat(item2))

\* C6: arithmetic typing and operand order.  With two values on top of the
\* stack, an arithmetic opcode fails with ArithmeticError exactly when one
\* of them is not numeric; otherwise it replaces them by item1 OP item2 and
\* leaves the values beneath unchanged.
C6_ArithmeticTyping ==
  [][ \A name \in ArithmeticNames :
        (Dispatches(name) /\ popn(values, frames, 2).err = "none") =>
          IF ~(IsNum(values[Len(values) - 1]) /\ IsNum(Last(values)))
          THEN err' = "ArithmeticError"
          ELSE /\ err' # "ArithmeticError"
               /\ OpResult(name, values[Len(values) - 1], Last(values)).err = "none" =>
                    /\ err' = "none"
                    /\ values' =
                         Append(SubSeq(values, 1, Len(values) - 2),
                                OpResult(name, values[Len(values) - 1],
                                         Last(values)).v)
    ]_vars

\* C7: COMPARE/LT/GT operand resolution.  When the cell at argument 1 holds
\* a valid address, the flag becomes (top of stack REL value read there):
\* the comparison of the top two stack values is not used, so where
\* top REL value is undefined the opcode does not succeed; the operand stack
\* is unchanged.
C7_CompareResolution ==
  [][ \A name \in { T_COMPARE, T_LT, T_GT } :
        (/\ Dispatches(name)
         /\ argument(ip, 1).err = "none"
         /\ Arg1Address(Self).err = "none"
         /\ values # <<>>
         /\ frames = <<>>) =>
          /\ values' = values
          /\ IF Comparable(name, Last(values), ValueAt(Self, Arg1Address(Self)))
             THEN /\ err' = "none"
                  /\ cond' = Holds(name, Last(values), ValueAt(Self, Arg1Address(Self)))
             ELSE err' # "none"
    ]_vars

\* C8: all-or-nothing opcode execution.  A turn that ends in an error leaves
\* the operand stack, frames, return-address stack, flag, instruction
\* pointer and sheet as they were.
C8_AllOrNothing ==
  [][ (status # "error" /\ status' = "error") => Untouched ]_vars

\* C9: unrecognized opcode.  At a text that is not blank, no number, not the
\* halt opcode in any case and names no handler, run() fails with
\* InvalidOpcode and changes nothing.
C9_InvalidOpcode ==
  [][ (/\ status # "error"
       /\ ip \in DOMAIN sheet
       /\ Opcode.t = "str"
       /\ Opcode.s # <<>>
       /\ _safe_float(Opcode.s) = PyNone
       /\ Upper(Opcode.s) \notin HandlerNames \cup { T_HALT }) =>
        /\ status' = "error"
        /\ err' = "InvalidOpcode"
        /\ Untouched
    ]_vars

\* C10: opcode names are case-insensitive.  A cell holding a name of the
\* catalog in lower or mixed case does what the upper-case name does: the
\* halt opcode halts, every other name runs its handler.
C10_CaseInsensitive ==
  [][ (/\ status # "error"
       /\ ip \in DOMAIN sheet
       /\ Opcode.t = "str"
       /\ Opcode.s # Upper(Opcode.s)) =>
        /\ Upper(Opcode.s) = T_HALT =>
             (status' = "halted" /\ err' = "none" /\ Untouched)
        /\ Upper(Opcode.s) \in HandlerNames => op' = Upper(Opcode.s)
    ]_vars

\* a text of one or more letters followed by one or more digits
LettersThenDigits(s) ==
  \E k \in 1..(Len(s) - 1) :
    /\ \A j \in 1..k : IsLetter(s[j])
    /\ \A j \in (k + 1)..Len(s) : IsDigit(s[j])

\* the digits of such a text, as a number
RowOf(s) == DigitsToNat(SelectSeq(s, IsDigit))

\* a valid address: letters, then digits that denote a row >= 1
ValidAddress(s) == LettersThenDigits(s) /\ RowOf(s) >= 1

\* the column letters index_to_a1 is to give for a column, where the claim
\* names them
NamedLetters(c) ==
  CASE c = 26 -> << "Z" >>
    [] c = 27 -> << "A", "A" >>
    [] c = 702 -> << "Z", "Z" >>
    [] c = 703 -> << "A", "A", "A" >>
    [] OTHER -> _numbers_to_letters(c)

\* C11: address round trip.  index_to_a1 of a positive pair succeeds, gives
\* the bijective base-26 letters (26 -> Z, 27 -> AA, 702 -> ZZ, 703 -> AAA)
\* followed by the row, and a1_to_index of it is the pair; a1_to_index of a
\* valid address succeeds and index_to_a1 of its pair parses to the same pair.
C11_RoundTrip ==
  /\ (res.op = "index_to_a1" /\ ip[1] > 0 /\ ip[2] > 0) =>
       /\ res.err = "none"
       /\ res.ret[1].s = NamedLetters(ip[1]) \o NatToDigits(ip[2])
       /\ a1_to_index(res.ret[1]) = [err |-> "none", col |-> ip[1], row |-> ip[2]]
  /\ (res.op = "a1_to_index" /\ ValidAddress(op)) =>
       /\ res.err = "none"
       /\ index_to_a1(<< res.ret[1].n, res.ret[2].n >>).err = "none"
       /\ PairOf(a1_to_index(PyStr(index_to_a1(<< res.ret[1].n, res.ret[2].n >>).s)))
            = res.ret

\* index_to_a1((703, 10)) has returned AAA10
C11_Witness ==
  /\ res.op = "index_to_a1"
  /\ ip = << 703, 10 >>
  /\ res.ret = << PyStr(<< "A", "A", "A", "1", "0" >>) >>

\* C12: address parsing rejects bad input.  a1_to_index fails with the
\* invalid-address error for every text that is not letters followed by
\* digits and for every text whose row is 0; every pair it returns is
\* positive.
C12_RejectsBadInput ==
  res.op = "a1_to_index" =>
    IF ValidAddress(op)
    THEN res.err = "none" /\ res.ret[1].n >= 1 /\ res.ret[2].n >= 1
    ELSE res.err = "InvalidA1Notation"

\* C13: reset() sets the instruction pointer to the configured start address,
\* empties the operand stack, its frame markers and the return-address stack,
\* clears the condition flag, and leaves every cell of the sheet and the
\* configured start address unchanged, whatever state it is called in
C13_Reset ==
  [][resets' # resets =>
       /\ ip' = start
       /\ values' = <<>>
       /\ frames' = <<>>
       /\ ret_stack' = <<>>
       /\ cond' = FALSE
       /\ sheet' = sheet
       /\ start' = start]_vars

\* a program started at B2 stored a value in D1 and was reset: D1 keeps the
\* stored value and the instruction pointer is back at B2
C13_Witness ==
  /\ resets = 1
  /\ status = "idle"
  /\ start = << 2, 2 >>
  /\ ip = << 2, 2 >>
  /\ << 4, 1 >> \in DOMAIN sheet
  /\ values = <<>>
  /\ ret_stack = <<>>

\* n successive calls of pop: the error of the first that fails (and the
\* stack it left), or the values returned, in the order they were popped
RECURSIVE Pops(_, _, _)
Pops(vs, fs, n) ==
  IF n = 0 THEN StackResult("none", vs, fs, <<>>)
  ELSE IF pop(vs, fs).err # "none" THEN pop(vs, fs)
  ELSE StackResult(Pops(pop(vs, fs).values, fs, n - 1).err,
                   Pops(pop(vs, fs).values, fs, n - 1).values,
                   fs,
                   pop(vs, fs).ret \o Pops(pop(vs, fs).values, fs, n - 1).ret)

\* C14: peek follows pop's rules.  peek(n), n >= 1, succeeds exactly when n
\* successive pops would all succeed, returns the value the n-th of those
\* pops would return, and leaves values and frames unchanged.
C14_PeekLikePop ==
  [][ (res'.op = "peek" /\ res'.n >= 1) =>
        /\ res'.err = "none" <=> Pops(values, frames, res'.n).err = "none"
        /\ res'.err = "none" =>
              res'.ret = << Last(Pops(values, frames, res'.n).ret) >>
        /\ values' = values
        /\ frames' = frames
    ]_vars

Reverse(q) == [i \in 1..Len(q) |-> q[Len(q) + 1 - i]]

\* C15: popn is an atomic n-fold pop.  If n successive pops would succeed,
\* popn(n) removes exactly the top n values and returns them bottom-to-top
\* (the reverse of what the pops return), leaving the lower values and the
\* frames unchanged; otherwise it fails and leaves the stack unchanged.
C15_PopnAtomic ==
  [][ res'.op = "popn" =>
        IF Pops(values, frames, res'.n).err = "none"
        THEN /\ res'.err = "none"
             /\ res'.ret = Reverse(Pops(values, frames, res'.n).ret)
             /\ values' = SubSeq(values, 1, Len(values) - res'.n)
             /\ frames' = frames
        ELSE /\ res'.err # "none"
             /\ values' = values
             /\ frames' = frames
    ]_vars

\* the boundary enclosing a new frame: the newest frame's, or 0 without one
Enclosing(fs) == IF fs = <<>> THEN 0 ELSE Last(fs)

\* C16: push_frame reserves exactly its arguments.  push_frame(k) on depth d
\* with d - k not below the enclosing boundary succeeds, and then k successive
\* pops succeed, the next pop fails, and no popn removes a value below the
\* k reserved ones; otherwise push_frame(k) fails without adding a boundary.
C16_FrameReserves ==
  [][ res'.op = "push_frame" =>
        IF Len(values) - res'.n >= Enclosing(frames)
        THEN /\ res'.err = "none"
             /\ values' = values
             /\ Len(frames') = Len(frames) + 1
             /\ Pops(values', frames', res'.n).err = "none"
             /\ Pops(values', frames', res'.n + 1).err # "none"
             /\ \A m \in 0..(MaxArg + 1) :
                  popn(values', frames', m).err = "none" =>
                    Len(popn(values', frames', m).values) >= Len(values) - res'.n
        ELSE /\ res'.err # "none"
             /\ values' = values
             /\ frames' = frames
    ]_vars

\* the step is a turn of run()'s loop that called the handler of `name`
Attempted(name) ==
  /\ status # "error"
  /\ status' \in { "running", "error" }
  /\ op' = name
  /\ resets' = resets

\* the number of values above the active frame boundary
Avail == Len(values) - Enclosing(frames)

\* C17: SWAP and DROP.  With two values [.., a, b] available above the frame
\* boundary SWAP yields [.., b, a] and DROP removes exactly the top value,
\* both leaving the lower values, the frames, the return-address stack, the
\* condition flag and the sheet unchanged; SWAP followed by DROP turns
\* [.., a, b] into [.., b]; DROP on an empty stack fails with the underflow
\* error of pop and changes nothing.
C17_SwapDrop ==
  /\ [][ (Attempted(T_SWAP) /\ Avail >= 2) =>
           /\ err' = "none"
           /\ values' = SubSeq(values, 1, Len(values) - 2)
                           \o << values[Len(values)], values[Len(values) - 1] >>
           /\ UNCHANGED << frames, ret_stack, cond, sheet >> ]_vars
  /\ [][ (Attempted(T_DROP) /\ Avail >= 2) =>
           /\ err' = "none"
           /\ values' = Front(values)
           /\ UNCHANGED << frames, ret_stack, cond, sheet >> ]_vars
  /\ [][ (Attempted(T_DROP) /\ values = <<>>) =>
           /\ status' = "error"
           /\ err' = pop(<<>>, <<>>).err
           /\ err' = "IndexError"
           /\ UNCHANGED << values, frames, ret_stack, cond, sheet, ip >> ]_vars
  /\ [](Avail >= 2 =>
          do_DROP(do_SWAP(Self).self).self.values
            = Append(SubSeq(values, 1, Len(values) - 2), Last(values)))

\* a subroutine called with two reserved values swapped them
C17_Witness ==
  /\ op = T_SWAP
  /\ status = "running"
  /\ frames = << 0 >>
  /\ ret_stack = << << 1, 3 >> >>
  /\ ip = << 7, 2 >>
  /\ Len(values) = 2
  /\ values[1] # values[2]

\* the opcodes that assign the condition flag
FlagSetters == { T_TEST, T_COMPARE, T_LT, T_GT, T_INVERT_COND }

\* C18: the condition flag changes only when TEST, COMPARE, LT, GT or
\* INVERT_COND executes; every other opcode (JUMP_IF, CALL_IF, CALL and
\* RETURN among them) leaves it as it is, and INVERT_COND negates the flag,
\* advances one row and changes nothing else.
C18_FlagFrame ==
  [][ /\ (cond' # cond /\ resets' = resets) =>
           (Attempted(op') /\ op' \in FlagSetters)
      /\ Attempted(T_INVERT_COND) =>
           /\ cond' = ~cond
           /\ err' = "none"
           /\ ip' = Below(ip)
           /\ UNCHANGED << sheet, start, values, frames, ret_stack >>
    ]_vars

\* a flag set before a call is still set after the RETURN from it
C18_Witness ==
  /\ op = T_RETURN
  /\ status = "running"
  /\ cond = TRUE
  /\ ret_stack = <<>>
  /\ ip = << 1, 3 >>

\* C19: call bookkeeping stays in step.  In every state reached from a fresh
\* interpreter, failed opcodes included, there are as many frame markers as
\* return addresses, and the frame boundaries are non-negative and
\* non-decreasing from the oldest to the newest.
C19_Bookkeeping ==
  /\ Len(frames) = Len(ret_stack)
  /\ \A i \in 1..Len(frames) :
       /\ frames[i] >= 0
       /\ i > 1 => frames[i - 1] <= frames[i]

\* a call failed inside a subroutine that was entered inside another one
C19_Witness ==
  /\ status = "error"
  /\ op = T_CALL
  /\ Len(ret_stack) = 2
  /\ frames = << 0, 1 >>

\* run() has returned or raised
Stopped == status \in { "halted", "error" }

\* C20: termination of straight-line programs.  Without JUMP, JUMP_IF, CALL
\* and CALL_IF every turn of run()'s loop whose handler returns moves the
\* instruction pointer one row down in the same column, so that no row is
\* executed twice, and run() eventually stops and stays stopped, by halting
\* or by a handler's failure.
C20_StraightTerminates ==
  /\ [][ (Attempted(op') /\ status' = "running") =>
           /\ ip'[1] = ip[1]
           /\ ip'[2] = ip[2] + 1 ]_vars
  /\ [](ip[1] = start[1])
  /\ <>[]Stopped

\* a program of three rows executed each of them once and halted at the
\* blank cell below them
C20_Witness ==
  /\ family = "straight"
  /\ status = "halted"
  /\ loaded = 3
  /\ ip = << 1, 4 >>
  /\ ip \notin DOMAIN sheet
  /\ Len(values) = 2

====
